---- MODULE Spec2Model ----
(***************************************************************************)
(* A model of aws_simulation.py: the three-tier (edge / fog / cloud)       *)
(* sensor pipeline, its publisher and its driver loop.                     *)
(*                                                                         *)
(* Python dicts are functions from key strings to values.  Sensor values   *)
(* and the random draws are integers in thousandths (6.0 is 6000): the     *)
(* generator rounds to at most three decimals.  Float literals that are    *)
(* only copied, never computed with, are kept as the text of the literal.  *)
(***************************************************************************)
EXTENDS Integers, Sequences, FiniteSets, TLC

(* ------------------------------ bounds --------------------------------- *)

\* The driver loop is cut after this many cycles.
MaxCycles == 2

(* --------------------------- dict operations --------------------------- *)

\* {**a, **b}: the keys of both, a later entry replacing an earlier one.
Merge(a, b) ==
  [k \in (DOMAIN a) \cup (DOMAIN b) |-> IF k \in DOMAIN b THEN b[k] ELSE a[k]]

\* d[k] = v on a dict: k is added, or its value replaced.
SetItem(d, k, v) ==
  [j \in (DOMAIN d) \cup {k} |-> IF j = k THEN v ELSE d[j]]

\* A local variable that has not been assigned yet.
Unbound == [unbound |-> TRUE]

(* --------------------------- configuration ----------------------------- *)

DEVICE_ID == "precision-agriculture-device"

THING_NAME == "AgricultureEdgeDevice"

\* The fallback topic table of the module.
DefaultTopics ==
  [biometric_data       |-> "agriculture/edge/AgricultureEdgeDevice/biometric",
   health_analysis      |-> "agriculture/fog/AgricultureEdgeDevice/health-analysis",
   cloud_analysis       |-> "agriculture/cloud/AgricultureEdgeDevice/cloud-analysis",
   emergency_alerts     |-> "agriculture/actuators/AgricultureEdgeDevice/emergency",
   health_notifications |-> "agriculture/actuators/AgricultureEdgeDevice/notifications"]

\* d restricted to the keys in ks.
Restrict(d, ks) == [k \in (DOMAIN d) \cap ks |-> d[k]]

\* TOPICS is the fallback table, or AWS_CONFIG.get("topics", {}): whatever
\* table the configuration file holds, and the empty one when it holds none.
TopicTables ==
  { DefaultTopics,
    Restrict(DefaultTopics, {}),
    Restrict(DefaultTopics, {"biometric_data", "health_analysis", "cloud_analysis"}),
    Restrict(DefaultTopics, (DOMAIN DefaultTopics) \ {"health_analysis"}) }

\* iot_client is a boto3 client, or None when there is no endpoint or the
\* construction of the client failed.
Clients == {"None", "client"}

(* --------------------------- sensor readings --------------------------- *)

\* Samples of random.uniform(0.0, 10.0), around the threshold 5.0.
AngularVelocities == {5000, 6000}

\* Samples of random.uniform(0.0, 25.0), around the thresholds 10.0 and 15.0.
Magnitudes == {10000, 15000, 16000, 20000}

\* Samples of random.uniform(0.0, 500.0), around the thresholds 10.0 and 50.0.
Distances == {5000, 10000, 50000}

\* Samples of the fields no stage reads.
AxisSamples == {-90000}

AccelSamples == {9810}

SignalSamples == {75000}

ObstacleSamples == {TRUE}

\* datetime.utcnow().isoformat(): the reading of a clock.
Timestamps == {"2024-01-01T00:00:00"}

\* Samples of round(random.uniform(0.5, 1.0), 3).
StabilityScores == {500, 1000}

\* Samples of random.uniform(0.8, 0.99).
CloudConfidences == {800, 990}

\* The readings generate_precision_agriculture_sensor_data can return.
generate_precision_agriculture_sensor_data ==
  { [GYROSCOPE |-> [x_axis |-> ax, y_axis |-> ax, z_axis |-> ax,
                    angular_velocity |-> w],
     ACCELEROMETER |-> [x_accel |-> ac, y_accel |-> ac, z_accel |-> ac,
                        magnitude |-> m],
     PROXIMITY |-> [distance |-> d, obstacle_detected |-> o,
                    signal_strength |-> sg],
     timestamp |-> ts,
     sensor_transmission_time |-> "3.0"] :
       ax \in AxisSamples, w \in AngularVelocities,
       ac \in AccelSamples, m \in Magnitudes,
       d \in Distances, o \in ObstacleSamples, sg \in SignalSamples,
       ts \in Timestamps }

(* ------------------------------ edge stage ----------------------------- *)

Abs(x) == IF x < 0 THEN -x ELSE x

gyroscope_analysis(raw_data, stability) ==
  [stability_score |-> stability,
   motion_detected |-> Abs(raw_data["GYROSCOPE"]["angular_velocity"]) > 5000]

\* The edge stage with the activity threshold taken as 20.0 instead of 10.0.
accelerometer_analysis_activity_above_20(raw_data) ==
  [impact_detected |-> raw_data["ACCELEROMETER"]["magnitude"] > 15000,
   activity_level  |-> IF raw_data["ACCELEROMETER"]["magnitude"] > 20000
                       THEN "high" ELSE "normal"]

accelerometer_analysis(raw_data) ==
  [impact_detected |-> raw_data["ACCELEROMETER"]["magnitude"] > 15000,
   activity_level  |-> IF raw_data["ACCELEROMETER"]["magnitude"] > 10000
                       THEN "high" ELSE "normal"]

\* The edge stage with the critical distance taken as 5.0 instead of 10.0.
proximity_analysis_critical_below_5(raw_data) ==
  [object_nearby |-> raw_data["PROXIMITY"]["distance"] < 50000,
   alert_level   |-> IF raw_data["PROXIMITY"]["distance"] < 5000
                     THEN "critical" ELSE "normal"]

proximity_analysis(raw_data) ==
  [object_nearby |-> raw_data["PROXIMITY"]["distance"] < 50000,
   alert_level   |-> IF raw_data["PROXIMITY"]["distance"] < 10000
                     THEN "critical" ELSE "normal"]

\* stability is the draw of random.uniform(0.5, 1.0) the function makes.
process_biometric_data(raw_data, stability) ==
  LET p0 == Merge([device_id |-> DEVICE_ID,
                   application_id |-> "precision-agriculture-monitoring",
                   processed_at |-> "edge-device",
                   processing_delay_ms |-> "3.0"],
                  raw_data)
      p1 == SetItem(p0, "gyroscope_analysis", gyroscope_analysis(raw_data, stability))
      p2 == SetItem(p1, "accelerometer_analysis", accelerometer_analysis(raw_data))
      p3 == SetItem(p2, "proximity_analysis", proximity_analysis(raw_data))
  IN  SetItem(p3, "biometric_to_analysis_tuple",
              [tuple_cpu_delay |-> "0.41249999999990905",
               data_size |-> 2500,
               network_delay |-> 1800])

(* ------------------------------ fog stage ------------------------------ *)

\* The three rules of analyze_health_data, applied in the order of the code
\* to the pair (health_issues, alert_level).
MovementRule(b, st) ==
  IF b["gyroscope_analysis"]["motion_detected"]
  THEN [health_issues |-> Append(st.health_issues, "EXCESSIVE_MOVEMENT"),
        alert_level |-> "medium"]
  ELSE st

ImpactRule(b, st) ==
  IF b["accelerometer_analysis"]["impact_detected"]
  THEN [health_issues |-> Append(st.health_issues, "IMPACT_DETECTED"),
        alert_level |-> "high"]
  ELSE st

ProximityRule(b, st) ==
  IF b["proximity_analysis"]["object_nearby"]
  THEN [health_issues |-> Append(st.health_issues, "OBSTACLE_DETECTED"),
        alert_level |-> IF b["proximity_analysis"]["alert_level"] = "critical"
                        THEN "critical" ELSE st.alert_level]
  ELSE st

\* The fog stage with the movement rule applied after the impact rule.
Severity_movement_after_impact(b) ==
  ProximityRule(b, MovementRule(b, ImpactRule(b,
      [health_issues |-> << >>, alert_level |-> "normal"])))

Severity(b) ==
  ProximityRule(b, ImpactRule(b, MovementRule(b,
      [health_issues |-> << >>, alert_level |-> "normal"])))

\* str(d) of a dict writes out every key and every value, nested dicts
\* included.  A word can occur in that text only inside one of its strings:
\* a key or a string value, at any depth (numbers, booleans and punctuation
\* hold no letters of it).  These are the strings of the records of the
\* pipeline: their keys, the keys of their nested dicts, and their string
\* values.
StringValuedKeys == {"device_id", "application_id", "processed_at", "timestamp"}

DictValuedKeys ==
  {"GYROSCOPE", "ACCELEROMETER", "PROXIMITY", "gyroscope_analysis",
   "accelerometer_analysis", "proximity_analysis", "biometric_to_analysis_tuple"}

NestedStringKeys == {"activity_level", "alert_level"}

StringsOf(d) ==
  (DOMAIN d)
  \cup { d[k] : k \in (DOMAIN d) \cap StringValuedKeys }
  \cup UNION { DOMAIN d[k] : k \in (DOMAIN d) \cap DictValuedKeys }
  \cup UNION { { d[k][j] : j \in (DOMAIN d[k]) \cap NestedStringKeys } :
                 k \in (DOMAIN d) \cap DictValuedKeys }

\* A device identifier a configuration file can give as client_id.
GyroscopeDeviceId == "GYROSCOPE-rig-7"

\* "GYROSCOPE" in s, for the strings s of the model: the upper-case word is
\* in the sensor key and in the identifier above, and in no other string
\* (gyroscope_analysis and gyroscope_angular_velocity are lower-case).
ContainsGyroscope(s) == s \in {"GYROSCOPE", GyroscopeDeviceId}

\* "GYROSCOPE" in str(biometric_data)
MentionsGyroscope(b) == \E s \in StringsOf(b) : ContainsGyroscope(s)

analyze_health_data(biometric_data) ==
  LET st == Severity(biometric_data)
      r0 == Merge(biometric_data,
                  [health_issues |-> st.health_issues,
                   issue_count |-> Len(st.health_issues),
                   alert_level |-> st.alert_level,
                   analyzed_at |-> "fog-node"])
      critical == MentionsGyroscope(biometric_data) /\ st.alert_level = "critical"
      r1 == SetItem(r0, "loop_delay_ms",
                    IF critical THEN "34.162499999999966" ELSE "13.651647286821639")
      r2 == SetItem(r1, "loop_type",
                    IF critical THEN "critical_health_loop"
                                ELSE "routine_monitoring_loop")
  IN  SetItem(r2, "analysis_to_cloud_tuple",
              [tuple_cpu_delay |-> "0.21000000000003638",
               data_size |-> 2200,
               network_delay |-> 1600])

(* ----------------------------- cloud stage ----------------------------- *)

InList(x, s) == \E i \in 1..Len(s) : s[i] = x

cloud_patterns(h) ==
  (IF h["issue_count"] > 1 THEN <<"MULTI_SENSOR_CORRELATION">> ELSE << >>)
  \o (IF InList("IMPACT_DETECTED", h["health_issues"])
      THEN <<"PHYSICAL_IMPACT_PATTERN">> ELSE << >>)
  \o (IF InList("EXCESSIVE_MOVEMENT", h["health_issues"])
         /\ InList("OBSTACLE_DETECTED", h["health_issues"])
      THEN <<"COLLISION_RISK_PATTERN">> ELSE << >>)

\* The cloud stage with multi-issue records escalated to the emergency action.
recommended_actions_by_issue_count(h) ==
  IF h["alert_level"] = "critical" \/ h["issue_count"] > 2 THEN <<"EMERGENCY_ALERT">>
  ELSE IF h["alert_level"] \in {"high", "medium"} THEN <<"HEALTH_NOTIFICATION">>
  ELSE <<"ROUTINE_MONITORING">>

recommended_actions(h) ==
  IF h["alert_level"] = "critical" THEN <<"EMERGENCY_ALERT">>
  ELSE IF h["alert_level"] \in {"high", "medium"} THEN <<"HEALTH_NOTIFICATION">>
  ELSE <<"ROUTINE_MONITORING">>

\* The cloud stage stamping its tier into the alert_level field.
perform_cloud_analysis_overwriting(health_analysis_data, confidence) ==
  LET c0 == Merge(health_analysis_data,
                  [cloud_patterns |-> cloud_patterns(health_analysis_data),
                   cloud_confidence |-> confidence,
                   recommended_actions |-> recommended_actions(health_analysis_data),
                   analyzed_at |-> "cloud",
                   execution_time_ms |-> 232])
  IN  SetItem(c0, "energy_consumption",
              [cloud_energy |-> "3701548.874999916",
               fog_node_energy |-> "240755.0000000157",
               edge_device_energy |-> "239058.5",
               execution_cost |-> "81239.10000010965",
               total_network_usage |-> "21258.8"])

\* confidence is the draw of random.uniform(0.8, 0.99) the function makes.
perform_cloud_analysis(health_analysis_data, confidence) ==
  LET c0 == Merge(health_analysis_data,
                  [cloud_patterns |-> cloud_patterns(health_analysis_data),
                   cloud_confidence |-> confidence,
                   recommended_actions |-> recommended_actions(health_analysis_data),
                   cloud_analysis_at |-> "cloud",
                   execution_time_ms |-> 232])
  IN  SetItem(c0, "energy_consumption",
              [cloud_energy |-> "3701548.874999916",
               fog_node_energy |-> "240755.0000000157",
               edge_device_energy |-> "239058.5",
               execution_cost |-> "81239.10000010965",
               total_network_usage |-> "21258.8"])

(* ------------------------------ actuators ------------------------------ *)

\* The acknowledgement of one action; an action that is none of the three
\* gets none.
ActuatorResponse(action, now) ==
  IF action = "EMERGENCY_ALERT"
  THEN << [actuator |-> "a-emergency-alert", action |-> "EMERGENCY_ALERT",
           status |-> "executed", latency_ms |-> "0.5",
           gateway_device |-> "edge-device", timestamp |-> now] >>
  ELSE IF action = "HEALTH_NOTIFICATION"
  THEN << [actuator |-> "a-health-notification", action |-> "HEALTH_NOTIFICATION",
           status |-> "executed", latency_ms |-> "0.8",
           gateway_device |-> "edge-device", timestamp |-> now] >>
  ELSE IF action = "ROUTINE_MONITORING"
  THEN << [actuator |-> "a-routine-monitor", action |-> "ROUTINE_MONITORING",
           status |-> "executed", latency_ms |-> "0.3",
           gateway_device |-> "edge-device", timestamp |-> now] >>
  ELSE << >>

RECURSIVE ResponsesOf(_, _)
ResponsesOf(actions, now) ==
  IF actions = << >> THEN << >>
  ELSE ActuatorResponse(Head(actions), now) \o ResponsesOf(Tail(actions), now)

simulate_actuator_responses(cloud, now) ==
  ResponsesOf(cloud["recommended_actions"], now)

(* ------------------------------ publisher ------------------------------ *)

\* A call of the client raises while the broker is down.
ClientRaises(brokerState) == brokerState = "down"

\* publish_to_aws_iot without the test of iot_client and with a handler for
\* the broker's errors only: the call on None raises AttributeError.
publish_to_aws_iot_unguarded(client, brokerState, topic, payload) ==
  IF client = "None"
  THEN [ret |-> "False", called |-> FALSE, raised |-> "AttributeError"]
  ELSE IF ClientRaises(brokerState)
  THEN [ret |-> "False", called |-> TRUE, raised |-> "none"]
  ELSE [ret |-> "True", called |-> TRUE, raised |-> "none"]

\* publish_to_aws_iot without its try/except: an error of the client leaves
\* the function.
publish_to_aws_iot_uncaught(client, brokerState, topic, payload) ==
  IF client = "None"
  THEN [ret |-> "False", called |-> FALSE, raised |-> "none"]
  ELSE IF ClientRaises(brokerState)
  THEN [ret |-> "False", called |-> TRUE, raised |-> "ClientError"]
  ELSE [ret |-> "True", called |-> TRUE, raised |-> "none"]

\* What a call of publish_to_aws_iot(topic, payload) comes to: the value
\* returned, whether iot_client.publish was called, and the exception that
\* leaves the function ("none" when it returns).  Every payload of the
\* program is a dict json.dumps accepts, and json.dumps is inside the try.
publish_to_aws_iot(client, brokerState, topic, payload) ==
  IF client = "None"
  THEN [ret |-> "False", called |-> FALSE, raised |-> "none"]
  ELSE IF ClientRaises(brokerState)
  THEN [ret |-> "False", called |-> TRUE, raised |-> "none"]
  ELSE [ret |-> "True", called |-> TRUE, raised |-> "none"]

\* The same for send_device_shadow_update(state) and
\* iot_client.update_thing_shadow.
send_device_shadow_update(client, brokerState, state) ==
  IF client = "None"
  THEN [ret |-> "False", called |-> FALSE, raised |-> "none"]
  ELSE IF ClientRaises(brokerState)
  THEN [ret |-> "False", called |-> TRUE, raised |-> "none"]
  ELSE [ret |-> "True", called |-> TRUE, raised |-> "none"]

\* The state the driver reports to the device shadow.
DeviceState(raw, health, cloud, now, count) ==
  [sensor_readings |->
     [gyroscope_angular_velocity |-> raw["GYROSCOPE"]["angular_velocity"],
      accelerometer_magnitude |-> raw["ACCELEROMETER"]["magnitude"],
      proximity_distance |-> raw["PROXIMITY"]["distance"]],
   health_analysis |->
     [issues_detected |-> health["issue_count"],
      alert_level |-> health["alert_level"],
      loop_type |-> health["loop_type"]],
   performance |->
     [execution_time_ms |-> cloud["execution_time_ms"],
      cloud_confidence |-> cloud["cloud_confidence"]],
   last_update |-> now,
   simulation_cycle |-> count]

(* ------------------------------- state --------------------------------- *)

VARIABLES
  TOPICS,             \* the topic table of the module
  iot_client,         \* the client of the module, or "None"
  broker,             \* "up" or "down": whether a call of the client succeeds
  simulation_count,   \* the cycle counter of the driver
  pc,                 \* the statement the driver is at
  raw_sensor_data, biometric_data, health_analysis, cloud_result,
  actuator_responses, device_state,     \* the locals of the driver
  response_idx,       \* the position of the for loop over actuator_responses
  ret,                \* what the last publish or shadow update returned
  exit_reason,        \* the exception that ended the loop, "none" while it runs
  calls,              \* the calls of the client made in the current cycle
  attempts,           \* the calls of the two publisher functions made in it
  steps,              \* the statements executed in the current cycle
  call_fn, call_arg, call_ret   \* a single call of one stage function

loopVars == <<simulation_count, pc, raw_sensor_data, biometric_data,
              health_analysis, cloud_result, actuator_responses, device_state,
              response_idx, ret, exit_reason, calls, attempts, steps>>

unitVars == <<call_fn, call_arg, call_ret>>

vars == <<TOPICS, iot_client, broker, loopVars, unitVars>>

Init ==
  /\ TOPICS \in TopicTables
  /\ iot_client \in Clients
  /\ broker \in {"up", "down"}
  /\ simulation_count = 0
  /\ pc = "loop_head"
  /\ raw_sensor_data = Unbound
  /\ biometric_data = Unbound
  /\ health_analysis = Unbound
  /\ cloud_result = Unbound
  /\ actuator_responses = << >>
  /\ device_state = Unbound
  /\ response_idx = 0
  /\ ret = "unset"
  /\ exit_reason = "none"
  /\ calls = << >>
  /\ attempts = << >>
  /\ steps = << >>
  /\ call_fn = "none"
  /\ call_arg = Unbound
  /\ call_ret = Unbound

(* ----------------------------- driver loop ----------------------------- *)

\* The loop body without its sleep: the shadow update is followed by the next
\* iteration at once.
NextPc_without_sleep(p) ==
  CASE p = "loop_head"         -> "generate"
    [] p = "generate"          -> "edge"
    [] p = "edge"              -> "publish_biometric"
    [] p = "publish_biometric" -> "fog"
    [] p = "fog"               -> "publish_health"
    [] p = "publish_health"    -> "cloud"
    [] p = "cloud"             -> "publish_cloud"
    [] p = "publish_cloud"     -> "actuators"
    [] p = "actuators"         -> "for_response"
    [] p = "for_response"      -> "shadow"
    [] p = "shadow"            -> "loop_head"
    [] p = "sleep"             -> "loop_head"

\* The statement after each statement of the loop body.
NextPc(p) ==
  CASE p = "loop_head"         -> "generate"
    [] p = "generate"          -> "edge"
    [] p = "edge"              -> "publish_biometric"
    [] p = "publish_biometric" -> "fog"
    [] p = "fog"               -> "publish_health"
    [] p = "publish_health"    -> "cloud"
    [] p = "cloud"             -> "publish_cloud"
    [] p = "publish_cloud"     -> "actuators"
    [] p = "actuators"         -> "for_response"
    [] p = "for_response"      -> "shadow"
    [] p = "shadow"            -> "sleep"
    [] p = "sleep"             -> "loop_head"

\* An exception e leaves the loop body: the handlers of the driver print it
\* and the function ends.  The statement that raised did not complete.
Raise(e) ==
  /\ pc' = "terminated"
  /\ exit_reason' = e
  /\ steps' = steps

\* The statement at pc completes and control moves to the statement next.
Goto(next) ==
  /\ pc' = next
  /\ exit_reason' = exit_reason
  /\ steps' = Append(steps, pc)

\* publish_to_aws_iot(TOPICS[key], payload) as a statement of the loop body,
\* followed by the statement next.  TOPICS[key] is evaluated first and raises
\* KeyError on a missing key.
Publish(key, payload, next) ==
  IF key \notin DOMAIN TOPICS
  THEN /\ Raise("KeyError")
       /\ UNCHANGED <<ret, calls, attempts>>
  ELSE LET o == publish_to_aws_iot(iot_client, broker, TOPICS[key], payload)
       IN  /\ attempts' = Append(attempts, [fn |-> "publish_to_aws_iot",
                                                topic |-> TOPICS[key],
                                                payload |-> payload])
           /\ calls' = IF o.called
                       THEN Append(calls, [api |-> "publish", topic |-> TOPICS[key],
                                           payload |-> payload])
                       ELSE calls
           /\ IF o.raised # "none"
              THEN Raise(o.raised) /\ ret' = ret
              ELSE Goto(next) /\ ret' = o.ret

\* while True: simulation_count += 1
LoopHead ==
  /\ pc = "loop_head"
  /\ simulation_count < MaxCycles
  /\ simulation_count' = simulation_count + 1
  /\ pc' = NextPc(pc)
  /\ steps' = << >>
  /\ calls' = << >>
  /\ attempts' = << >>
  /\ UNCHANGED <<TOPICS, iot_client, broker, raw_sensor_data, biometric_data,
                 health_analysis, cloud_result, actuator_responses, device_state,
                 response_idx, ret, exit_reason, unitVars>>

Generate ==
  /\ pc = "generate"
  /\ raw_sensor_data' \in generate_precision_agriculture_sensor_data
  /\ Goto(NextPc(pc))
  /\ UNCHANGED <<TOPICS, iot_client, broker, simulation_count, biometric_data,
                 health_analysis, cloud_result, actuator_responses, device_state,
                 response_idx, ret, calls, attempts, unitVars>>

Edge ==
  /\ pc = "edge"
  /\ \E s \in StabilityScores :
        biometric_data' = process_biometric_data(raw_sensor_data, s)
  /\ Goto(NextPc(pc))
  /\ UNCHANGED <<TOPICS, iot_client, broker, simulation_count, raw_sensor_data,
                 health_analysis, cloud_result, actuator_responses, device_state,
                 response_idx, ret, calls, attempts, unitVars>>

PublishBiometric ==
  /\ pc = "publish_biometric"
  /\ Publish("biometric_data", biometric_data, NextPc(pc))
  /\ UNCHANGED <<TOPICS, iot_client, broker, simulation_count, raw_sensor_data,
                 biometric_data, health_analysis, cloud_result,
                 actuator_responses, device_state, response_idx, unitVars>>

\* The fog step with an issue list that outlives the call: the issues of a
\* cycle are appended to those of the cycles before.
Fog_accumulating ==
  /\ pc = "fog"
  /\ health_analysis' =
       LET h == analyze_health_data(biometric_data)
           issues == IF health_analysis = Unbound THEN h["health_issues"]
                     ELSE health_analysis["health_issues"] \o h["health_issues"]
       IN  [h EXCEPT !["health_issues"] = issues, !["issue_count"] = Len(issues)]
  /\ Goto(NextPc(pc))
  /\ UNCHANGED <<TOPICS, iot_client, broker, simulation_count, raw_sensor_data,
                 biometric_data, cloud_result, actuator_responses, device_state,
                 response_idx, ret, calls, attempts, unitVars>>

Fog ==
  /\ pc = "fog"
  /\ health_analysis' = analyze_health_data(biometric_data)
  /\ Goto(NextPc(pc))
  /\ UNCHANGED <<TOPICS, iot_client, broker, simulation_count, raw_sensor_data,
                 biometric_data, cloud_result, actuator_responses, device_state,
                 response_idx, ret, calls, attempts, unitVars>>

PublishHealth ==
  /\ pc = "publish_health"
  /\ Publish("health_analysis", health_analysis, NextPc(pc))
  /\ UNCHANGED <<TOPICS, iot_client, broker, simulation_count, raw_sensor_data,
                 biometric_data, health_analysis, cloud_result,
                 actuator_responses, device_state, response_idx, unitVars>>

Cloud ==
  /\ pc = "cloud"
  /\ \E c \in CloudConfidences :
        cloud_result' = perform_cloud_analysis(health_analysis, c)
  /\ Goto(NextPc(pc))
  /\ UNCHANGED <<TOPICS, iot_client, broker, simulation_count, raw_sensor_data,
                 biometric_data, health_analysis, actuator_responses, device_state,
                 response_idx, ret, calls, attempts, unitVars>>

PublishCloud ==
  /\ pc = "publish_cloud"
  /\ Publish("cloud_analysis", cloud_result, NextPc(pc))
  /\ UNCHANGED <<TOPICS, iot_client, broker, simulation_count, raw_sensor_data,
                 biometric_data, health_analysis, cloud_result,
                 actuator_responses, device_state, response_idx, unitVars>>

Actuators ==
  /\ pc = "actuators"
  /\ \E now \in Timestamps :
        actuator_responses' = simulate_actuator_responses(cloud_result, now)
  /\ response_idx' = 1
  /\ Goto(NextPc(pc))
  /\ UNCHANGED <<TOPICS, iot_client, broker, simulation_count, raw_sensor_data,
                 biometric_data, health_analysis, cloud_result, device_state,
                 ret, calls, attempts, unitVars>>

\* The for loop with an else branch that sends every response that is not an
\* emergency alert, the routine one included, to the notifications topic.
ForResponse_publishing_routine ==
  /\ pc = "for_response"
  /\ response_idx <= Len(actuator_responses)
  /\ response_idx' = response_idx + 1
  /\ LET response == actuator_responses[response_idx]
     IN  IF response["action"] = "EMERGENCY_ALERT"
         THEN Publish("emergency_alerts", response, pc)
         ELSE Publish("health_notifications", response, pc)
  /\ UNCHANGED <<TOPICS, iot_client, broker, simulation_count, raw_sensor_data,
                 biometric_data, health_analysis, cloud_result,
                 actuator_responses, device_state, unitVars>>

\* One iteration of: for response in actuator_responses.
ForResponse ==
  /\ pc = "for_response"
  /\ response_idx <= Len(actuator_responses)
  /\ response_idx' = response_idx + 1
  /\ LET response == actuator_responses[response_idx]
     IN  IF response["action"] = "EMERGENCY_ALERT"
         THEN Publish("emergency_alerts", response, pc)
         ELSE IF response["action"] = "HEALTH_NOTIFICATION"
         THEN Publish("health_notifications", response, pc)
         ELSE Goto(pc) /\ UNCHANGED <<ret, calls, attempts>>
  /\ UNCHANGED <<TOPICS, iot_client, broker, simulation_count, raw_sensor_data,
                 biometric_data, health_analysis, cloud_result,
                 actuator_responses, device_state, unitVars>>

\* The for loop is exhausted.
ForExit ==
  /\ pc = "for_response"
  /\ response_idx > Len(actuator_responses)
  /\ pc' = NextPc(pc)
  /\ UNCHANGED <<TOPICS, iot_client, broker, simulation_count, raw_sensor_data,
                 biometric_data, health_analysis, cloud_result,
                 actuator_responses, device_state, response_idx, ret,
                 exit_reason, calls, attempts,
                 steps, unitVars>>

\* device_state = {...}; send_device_shadow_update(device_state)
Shadow ==
  /\ pc = "shadow"
  /\ \E now \in Timestamps :
        device_state' = DeviceState(raw_sensor_data, health_analysis, cloud_result,
                                    now, simulation_count)
  /\ LET o == send_device_shadow_update(iot_client, broker, device_state')
     IN  /\ attempts' = Append(attempts, [fn |-> "send_device_shadow_update",
                                              topic |-> THING_NAME,
                                              payload |-> device_state'])
         /\ calls' = IF o.called
                     THEN Append(calls, [api |-> "update_thing_shadow",
                                         topic |-> THING_NAME,
                                         payload |-> device_state'])
                     ELSE calls
         /\ IF o.raised # "none"
            THEN Raise(o.raised) /\ ret' = ret
            ELSE Goto(NextPc(pc)) /\ ret' = o.ret
  /\ UNCHANGED <<TOPICS, iot_client, broker, simulation_count, raw_sensor_data,
                 biometric_data, health_analysis, cloud_result,
                 actuator_responses, response_idx, unitVars>>

\* time.sleep(3.0), then the next iteration of while True.
Sleep ==
  /\ pc = "sleep"
  /\ Goto(NextPc(pc))
  /\ UNCHANGED <<TOPICS, iot_client, broker, simulation_count, raw_sensor_data,
                 biometric_data, health_analysis, cloud_result,
                 actuator_responses, device_state, response_idx, ret, calls,
                 attempts, unitVars>>

\* The user interrupts the process: KeyboardInterrupt is raised at whatever
\* statement the driver is at; no handler but the driver's own catches it.
Interrupt ==
  /\ pc # "terminated"
  /\ Raise("KeyboardInterrupt")
  /\ UNCHANGED <<TOPICS, iot_client, broker, simulation_count, raw_sensor_data,
                 biometric_data, health_analysis, cloud_result,
                 actuator_responses, device_state, response_idx, ret, calls,
                 attempts, unitVars>>

\* The broker goes down or comes back while the driver runs.
BrokerChange ==
  /\ pc # "terminated"
  /\ broker' = IF broker = "up" THEN "down" ELSE "up"
  /\ UNCHANGED <<TOPICS, iot_client, loopVars, unitVars>>

Next ==
  \/ LoopHead
  \/ Generate
  \/ Edge
  \/ PublishBiometric
  \/ Fog
  \/ PublishHealth
  \/ Cloud
  \/ PublishCloud
  \/ Actuators
  \/ ForResponse
  \/ ForExit
  \/ Shadow
  \/ Sleep
  \/ Interrupt
  \/ BrokerChange

Spec == Init /\ [][Next]_vars

(* --------------------- single calls of the functions ------------------- *)

\* The records a caller can hand to analyze_health_data: the fields the
\* function reads, with every combination of values; with the rotation data
\* of the reading, without it, and without it but with a device identifier
\* that spells the word.
EdgeRecords ==
  { Merge(CASE g = "key"    -> [GYROSCOPE |-> [angular_velocity |-> 6000]]
            [] g = "absent" -> [PROXIMITY |-> [distance |-> 5000]]
            [] g = "text"   -> [PROXIMITY |-> [distance |-> 5000],
                                device_id |-> GyroscopeDeviceId],
          [gyroscope_analysis |-> [stability_score |-> 1000, motion_detected |-> m],
           accelerometer_analysis |-> [impact_detected |-> i, activity_level |-> a],
           proximity_analysis |-> [object_nearby |-> o, alert_level |-> l]]) :
      g \in {"key", "absent", "text"}, m \in BOOLEAN, i \in BOOLEAN,
      a \in {"normal", "high"}, o \in BOOLEAN, l \in {"normal", "critical"} }

AlertLevels == {"normal", "medium", "high", "critical"}

IssueLists ==
  { << >>, <<"EXCESSIVE_MOVEMENT">>, <<"IMPACT_DETECTED">>, <<"OBSTACLE_DETECTED">>,
    <<"EXCESSIVE_MOVEMENT", "IMPACT_DETECTED">>,
    <<"EXCESSIVE_MOVEMENT", "OBSTACLE_DETECTED">>,
    <<"IMPACT_DETECTED", "OBSTACLE_DETECTED">>,
    <<"EXCESSIVE_MOVEMENT", "IMPACT_DETECTED", "OBSTACLE_DETECTED">> }

\* The records a caller can hand to perform_cloud_analysis: the fields the
\* function reads, every alert level with every issue list.
FogRecords ==
  { [health_issues |-> hi, issue_count |-> Len(hi), alert_level |-> al,
     analyzed_at |-> "fog-node"] : hi \in IssueLists, al \in AlertLevels }

CallEdge ==
  /\ call_fn = "none"
  /\ \E raw \in generate_precision_agriculture_sensor_data, s \in StabilityScores :
        /\ call_arg' = raw
        /\ call_ret' = process_biometric_data(raw, s)
  /\ call_fn' = "process_biometric_data"
  /\ UNCHANGED <<TOPICS, iot_client, broker, loopVars>>

CallFog ==
  /\ call_fn = "none"
  /\ \E b \in EdgeRecords \cup
              { process_biometric_data(raw, s) :
                  raw \in generate_precision_agriculture_sensor_data,
                  s \in StabilityScores } :
        /\ call_arg' = b
        /\ call_ret' = analyze_health_data(b)
  /\ call_fn' = "analyze_health_data"
  /\ UNCHANGED <<TOPICS, iot_client, broker, loopVars>>

CallCloud ==
  /\ call_fn = "none"
  /\ \E h \in FogRecords \cup
              { analyze_health_data(process_biometric_data(raw, s)) :
                  raw \in generate_precision_agriculture_sensor_data,
                  s \in StabilityScores },
        c \in CloudConfidences :
        /\ call_arg' = h
        /\ call_ret' = perform_cloud_analysis(h, c)
  /\ call_fn' = "perform_cloud_analysis"
  /\ UNCHANGED <<TOPICS, iot_client, broker, loopVars>>

CallActuators ==
  /\ call_fn = "none"
  /\ \E h \in FogRecords, c \in CloudConfidences, now \in Timestamps :
        /\ call_arg' = perform_cloud_analysis(h, c)
        /\ call_ret' = [responses |-> simulate_actuator_responses(call_arg', now)]
  /\ call_fn' = "simulate_actuator_responses"
  /\ UNCHANGED <<TOPICS, iot_client, broker, loopVars>>

\* publish_to_aws_iot called with any topic and any record of the pipeline,
\* under either value of the module's iot_client.
CallPublish ==
  /\ call_fn = "none"
  /\ \E client \in Clients, b \in {"up", "down"},
        key \in DOMAIN DefaultTopics, payload \in FogRecords :
        /\ iot_client' = client
        /\ broker' = b
        /\ call_arg' = [topic |-> DefaultTopics[key], payload |-> payload]
        /\ call_ret' = publish_to_aws_iot(client, b, DefaultTopics[key], payload)
  /\ call_fn' = "publish_to_aws_iot"
  /\ UNCHANGED <<TOPICS, loopVars>>

CallShadowUpdate ==
  /\ call_fn = "none"
  /\ \E client \in Clients, b \in {"up", "down"},
        raw \in generate_precision_agriculture_sensor_data,
        now \in Timestamps, n \in 1..MaxCycles :
        LET h == analyze_health_data(process_biometric_data(raw, 1000))
            state == DeviceState(raw, h, perform_cloud_analysis(h, 800), now, n)
        IN  /\ iot_client' = client
            /\ broker' = b
            /\ call_arg' = [state |-> state]
            /\ call_ret' = send_device_shadow_update(client, b, state)
  /\ call_fn' = "send_device_shadow_update"
  /\ UNCHANGED <<TOPICS, loopVars>>

\* The call returns and its caller drops the result.
Return ==
  /\ call_fn # "none"
  /\ call_fn' = "none"
  /\ call_arg' = Unbound
  /\ call_ret' = Unbound
  /\ UNCHANGED <<TOPICS, iot_client, broker, loopVars>>

NextCall ==
  \/ Return
  \/ CallEdge
  \/ CallFog
  \/ CallCloud
  \/ CallActuators
  \/ CallPublish
  \/ CallShadowUpdate

\* The module as imported with the fallback configuration; the functions are
\* called one at a time, in any order, with any argument.
InitCall ==
  /\ Init
  /\ TOPICS = DefaultTopics
  /\ iot_client = "None"
  /\ broker = "up"

SpecCall == InitCall /\ [][NextCall]_vars

(* ------------------------------ properties ----------------------------- *)

\* The current cycle has executed the statement p.
Done(p) == InList(p, steps)

\* The reading of the end-to-end case: rotation velocity 6.0, acceleration
\* magnitude 16.0, proximity distance 5.0.
FixedReading(raw) ==
  /\ raw["GYROSCOPE"]["angular_velocity"] = 6000
  /\ raw["ACCELEROMETER"]["magnitude"] = 16000
  /\ raw["PROXIMITY"]["distance"] = 5000

\* C1: once a cycle of the driver has run the four stages on a reading with
\* angular_velocity 6.0, magnitude 16.0 and distance 5.0, the alert level is
\* "critical", the recommended actions are exactly [EMERGENCY_ALERT], and
\* there is exactly one actuator response, of action EMERGENCY_ALERT.
C1_EndToEnd ==
  (Done("actuators") /\ FixedReading(raw_sensor_data)) =>
     /\ cloud_result["alert_level"] = "critical"
     /\ cloud_result["recommended_actions"] = <<"EMERGENCY_ALERT">>
     /\ Len(actuator_responses) = 1
     /\ actuator_responses[1]["action"] = "EMERGENCY_ALERT"

C1_Witness ==
  /\ Done("actuators")
  /\ FixedReading(raw_sensor_data)
  /\ Len(actuator_responses) = 1
  /\ pc = "for_response"

\* C2: analyze_health_data, on any edge record with motion_detected and
\* impact_detected both true, returns alert level "high" or "critical",
\* whatever the proximity fields are; whenever impact_detected is true the
\* level is at least "high" (the movement rule does not lower it), and the
\* level is "critical" only by the proximity rule (an object nearby whose
\* proximity alert level is critical).
C2_SeverityPrecedence ==
  call_fn = "analyze_health_data" =>
     LET motion == call_arg["gyroscope_analysis"]["motion_detected"]
         impact == call_arg["accelerometer_analysis"]["impact_detected"]
         prox == call_arg["proximity_analysis"]
         level == call_ret["alert_level"]
     IN  /\ (motion /\ impact) => level \in {"high", "critical"}
         /\ impact => level \in {"high", "critical"}
         /\ level = "critical" =>
               (prox["object_nearby"] /\ prox["alert_level"] = "critical")

C2_Witness ==
  /\ call_fn = "analyze_health_data"
  /\ call_arg["gyroscope_analysis"]["motion_detected"]
  /\ call_arg["accelerometer_analysis"]["impact_detected"]
  /\ ~call_arg["proximity_analysis"]["object_nearby"]
  /\ call_arg["proximity_analysis"]["alert_level"] = "critical"
  /\ call_ret["alert_level"] = "high"

\* The action the claim gives for each of the four alert levels.
ActionOfLevel(level) ==
  CASE level = "critical" -> "EMERGENCY_ALERT"
    [] level \in {"high", "medium"} -> "HEALTH_NOTIFICATION"
    [] level = "normal" -> "ROUTINE_MONITORING"

C4_NullClient ==
  (call_fn \in {"publish_to_aws_iot", "send_device_shadow_update"}
      /\ iot_client = "None") =>
     /\ call_ret["ret"] = "False"
     /\ call_ret["raised"] = "none"
     /\ ~call_ret["called"]

C4_Witness ==
  /\ call_fn = "publish_to_aws_iot"
  /\ iot_client = "None"
  /\ broker = "up"
  /\ call_arg["topic"] = DefaultTopics["emergency_alerts"]
  /\ call_ret["ret"] = "False"

\* Every key of a is a key of r, with the value it has in a.
Superset(r, a) == \A k \in DOMAIN a : k \in DOMAIN r /\ r[k] = a[k]

\* C9: the result of process_biometric_data holds every key of the raw
\* reading with its value, the result of analyze_health_data every key and
\* value of the edge record, and the result of perform_cloud_analysis every
\* key and value of the fog record; what each stage adds are its own fields.
C9_OutputSupersetOfInput ==
  /\ call_fn = "process_biometric_data" =>
        /\ Superset(call_ret, call_arg)
        /\ (DOMAIN call_ret) \ (DOMAIN call_arg) =
              {"device_id", "application_id", "processed_at", "processing_delay_ms",
               "gyroscope_analysis", "accelerometer_analysis", "proximity_analysis",
               "biometric_to_analysis_tuple"}
  /\ call_fn = "analyze_health_data" =>
        /\ Superset(call_ret, call_arg)
        /\ (DOMAIN call_ret) \ (DOMAIN call_arg) =
              {"health_issues", "issue_count", "alert_level", "analyzed_at",
               "loop_delay_ms", "loop_type", "analysis_to_cloud_tuple"}
  /\ call_fn = "perform_cloud_analysis" =>
        /\ Superset(call_ret, call_arg)
        /\ (DOMAIN call_ret) \ (DOMAIN call_arg) =
              {"cloud_patterns", "cloud_confidence", "recommended_actions",
               "cloud_analysis_at", "execution_time_ms", "energy_consumption"}

C9_Witness ==
  /\ call_fn = "perform_cloud_analysis"
  /\ "GYROSCOPE" \in DOMAIN call_arg
  /\ "gyroscope_analysis" \in DOMAIN call_arg
  /\ "analyzed_at" \in DOMAIN call_arg
  /\ call_ret["analyzed_at"] = "fog-node"
  /\ "energy_consumption" \in DOMAIN call_ret

\* C10: process_biometric_data reports impact_detected = true and
\* activity_level = "high" for every reading whose magnitude is above 15
\* (20 among them), whatever the other fields of the reading and the
\* stability score are; impact_detected = true implies activity_level = "high".
C10_ThresholdDeterminism ==
  call_fn = "process_biometric_data" =>
     LET acc == call_ret["accelerometer_analysis"]
     IN  /\ call_arg["ACCELEROMETER"]["magnitude"] > 15000 =>
               (acc["impact_detected"] /\ acc["activity_level"] = "high")
         /\ acc["impact_detected"] => acc["activity_level"] = "high"

C10_Witness ==
  /\ call_fn = "process_biometric_data"
  /\ call_arg["ACCELEROMETER"]["magnitude"] = 20000
  /\ call_arg["GYROSCOPE"]["angular_velocity"] = 5000
  /\ call_ret["gyroscope_analysis"]["stability_score"] = 500
  /\ call_ret["accelerometer_analysis"]["impact_detected"]

\* The statements of the loop body that call the client.
BrokerPcs ==
  {"publish_biometric", "publish_health", "publish_cloud", "for_response", "shadow"}

\* This step made a call of the client.
ClientCalled == Len(calls') = Len(calls) + 1

\* C5: whenever a publish or the shadow update of a cycle calls the client
\* while the broker is down (the client raises), the failure becomes the
\* result False, the driver goes on to the statement that follows in the
\* cycle, and the loop does not end; the loop never ends with an error of
\* the broker, and after the sleep of a cycle the next cycle begins.
C5_OutageSkipsPublish ==
  /\ [][(ClientCalled /\ broker = "down") =>
          /\ pc \in BrokerPcs
          /\ ret' = "False"
          /\ exit_reason' = "none"
          /\ pc' = (IF pc = "for_response" THEN pc ELSE NextPc(pc))
          /\ steps' = Append(steps, pc)]_vars
  /\ [][(pc = "sleep" /\ pc' # pc /\ exit_reason' # "KeyboardInterrupt") =>
          (pc' = "loop_head" /\ exit_reason' = "none")]_vars
  /\ [](exit_reason \in {"none", "KeyboardInterrupt", "KeyError"})

\* The shadow update of a cycle, the fifth call of the client in it, has
\* failed, and the cycle has reached its sleep.
C5_Witness ==
  /\ pc = "sleep"
  /\ iot_client = "client"
  /\ Len(calls) = 5
  /\ ret = "False"
  /\ exit_reason = "none"

\* The place of each statement in the order the claim gives: generate, edge,
\* fog, cloud, the publishes, actuator responses, shadow update, sleep.
ClaimedRank(p) ==
  CASE p = "generate" -> 1
    [] p = "edge" -> 2
    [] p = "fog" -> 3
    [] p = "cloud" -> 4
    [] p \in {"publish_biometric", "publish_health", "publish_cloud", "for_response"} -> 5
    [] p = "actuators" -> 6
    [] p = "shadow" -> 7
    [] p = "sleep" -> 8

\* The order of the statements in the loop body.
CycleOrder ==
  <<"generate", "edge", "publish_biometric", "fog", "publish_health", "cloud",
    "publish_cloud", "actuators", "for_response", "shadow", "sleep">>

\* A cycle begins only at the head of the loop, from the first entry or from
\* the completed sleep of the cycle before, and begins with nothing executed.
CycleBoundary ==
  [][simulation_count' # simulation_count =>
        /\ simulation_count' = simulation_count + 1
        /\ steps' = << >>
        /\ (simulation_count = 0 \/ (steps # << >> /\ steps[Len(steps)] = "sleep"))]_vars

\* C6 as stated: the statements of a cycle occur in the order generate, edge
\* stage, fog stage, cloud stage, the publishes, actuator responses, shadow
\* update, sleep: the three stages precede the first publish and every
\* publish precedes the actuator step.
C6_ClaimedOrder ==
  \A i \in 1..Len(steps) : \A j \in 1..Len(steps) :
     i < j => ClaimedRank(steps[i]) <= ClaimedRank(steps[j])

\* C6 as amended: the statements of a cycle occur in the order generate, edge
\* stage, publish of the edge record, fog stage, publish of the fog record,
\* cloud stage, publish of the cloud record, actuator responses, publish of
\* each actuator response, shadow update, sleep, none of them skipped; and no
\* statement of cycle n+1 occurs before the sleep of cycle n has completed.
C6_CodeOrder ==
  /\ [](/\ Len(steps) <= Len(CycleOrder)
        /\ \A i \in 1..Len(steps) : steps[i] = CycleOrder[i]
        /\ (pc # "terminated" /\ simulation_count > 0) =>
              \/ pc = (IF Len(steps) = Len(CycleOrder) THEN "loop_head"
                       ELSE CycleOrder[Len(steps) + 1])
              \/ (pc = "for_response" /\ steps # << >>
                     /\ steps[Len(steps)] = "for_response"))
  /\ CycleBoundary

\* The first cycle has run all its statements and the loop is at its head.
C6_Witness ==
  /\ steps = CycleOrder
  /\ pc = "loop_head"
  /\ simulation_count = 1
  /\ Len(calls) = 5

\* The shadow step of a cycle whose reading, random draws and clock reads,
\* as far as the device state holds them, are those of the cycle before:
\* device_state still holds the state the cycle before has sent.
SameInputsAsCycleBefore ==
  /\ pc = "shadow"
  /\ pc' = "sleep"
  /\ device_state # Unbound
  /\ device_state["sensor_readings"] =
        [gyroscope_angular_velocity |-> raw_sensor_data["GYROSCOPE"]["angular_velocity"],
         accelerometer_magnitude |-> raw_sensor_data["ACCELEROMETER"]["magnitude"],
         proximity_distance |-> raw_sensor_data["PROXIMITY"]["distance"]]
  /\ device_state["performance"]["cloud_confidence"] = cloud_result["cloud_confidence"]
  /\ device_state'["last_update"] = device_state["last_update"]

\* The records of the current cycle are those the stages compute from the
\* reading of the cycle and its draws, and the client was handed these.
RecordsOfCycle ==
  /\ Done("edge") =>
        biometric_data = process_biometric_data(raw_sensor_data,
                            biometric_data["gyroscope_analysis"]["stability_score"])
  /\ Done("fog") => health_analysis = analyze_health_data(biometric_data)
  /\ Done("cloud") =>
        cloud_result = perform_cloud_analysis(health_analysis,
                                              cloud_result["cloud_confidence"])
  /\ Done("actuators") =>
        \E now \in Timestamps :
           actuator_responses = simulate_actuator_responses(cloud_result, now)
  /\ Done("shadow") =>
        device_state = DeviceState(raw_sensor_data, health_analysis, cloud_result,
                                   device_state["last_update"], simulation_count)
  /\ \A i \in 1..Len(calls) :
        \/ /\ calls[i]["api"] = "publish"
           /\ \/ Done("publish_biometric") /\ calls[i]["payload"] = biometric_data
              \/ Done("publish_health") /\ calls[i]["payload"] = health_analysis
              \/ Done("publish_cloud") /\ calls[i]["payload"] = cloud_result
              \/ Done("for_response") /\ InList(calls[i]["payload"], actuator_responses)
        \/ /\ calls[i]["api"] = "update_thing_shadow"
           /\ Done("shadow")
           /\ calls[i]["payload"] = device_state

\* C7 as stated: nothing written in a cycle is read in a later one, so the
\* device state a cycle sends to the shadow is determined by the reading and
\* the draws of that cycle alone: a cycle with the inputs of the cycle before
\* sends the device state the cycle before has sent.
C7_NothingCarried ==
  [][SameInputsAsCycleBefore => device_state' = device_state]_vars

\* C7 as amended: the one value carried from cycle to cycle is the counter
\* simulation_count, raised by one in each cycle and sent to the shadow as
\* simulation_cycle; every record published in a cycle is determined by the
\* reading, the random draws and the clock reads of that cycle alone, and so
\* is the device state apart from its simulation_cycle.
C7_OnlyCounterCarried ==
  /\ [][SameInputsAsCycleBefore =>
          /\ device_state["simulation_cycle"] = simulation_count - 1
          /\ device_state' =
               [device_state EXCEPT !["simulation_cycle"] = simulation_count]]_vars
  /\ []RecordsOfCycle

\* The second cycle is about to send its device state, and its reading and
\* confidence are those the first cycle has reported.
C7_Witness ==
  /\ pc = "shadow"
  /\ simulation_count = 2
  /\ device_state # Unbound
  /\ device_state["simulation_cycle"] = 1
  /\ device_state["sensor_readings"]["proximity_distance"] =
        raw_sensor_data["PROXIMITY"]["distance"]
  /\ device_state["sensor_readings"]["accelerometer_magnitude"] =
        raw_sensor_data["ACCELEROMETER"]["magnitude"]
  /\ device_state["sensor_readings"]["gyroscope_angular_velocity"] =
        raw_sensor_data["GYROSCOPE"]["angular_velocity"]
  /\ device_state["performance"]["cloud_confidence"] = cloud_result["cloud_confidence"]

\* C8: the driver reaches its terminated state only after a
\* KeyboardInterrupt, for every table TOPICS and every outcome of the calls
\* of the client; without an interrupt a completed cycle is followed by the
\* next.
C8_OnlyInterruptTerminates ==
  pc = "terminated" => exit_reason = "KeyboardInterrupt"

\* The loop the claim gives for a record and its alert level.
LoopOf(critical) ==
  IF critical
  THEN [loop_type |-> "critical_health_loop", loop_delay_ms |-> "34.162499999999966"]
  ELSE [loop_type |-> "routine_monitoring_loop", loop_delay_ms |-> "13.651647286821639"]

\* C11: analyze_health_data sets loop_type to critical_health_loop (delay
\* 34.16...) exactly when the alert level is critical and the record holds
\* rotation (GYROSCOPE) data, and to routine_monitoring_loop (delay 13.65...)
\* otherwise; on the records process_biometric_data makes from a generated
\* reading the loop is the critical one exactly when the level is critical.
C11_LoopSelection ==
  call_fn = "analyze_health_data" =>
     LET critical == /\ call_ret["alert_level"] = "critical"
                     /\ "GYROSCOPE" \in DOMAIN call_arg
         loop == LoopOf(critical)
     IN  /\ call_ret["loop_type"] = loop.loop_type
         /\ call_ret["loop_delay_ms"] = loop.loop_delay_ms
         /\ ("device_id" \in DOMAIN call_arg /\ call_arg["device_id"] = DEVICE_ID) =>
               (call_ret["loop_type"] = "critical_health_loop"
                  <=> call_ret["alert_level"] = "critical")

\* The second half of C11 alone, in the driver: after the fog stage of a
\* cycle the loop is the critical one exactly when the level is critical.
C11_PipelineLoopType ==
  Done("fog") =>
     /\ health_analysis["loop_type"] = LoopOf(health_analysis["alert_level"] = "critical").loop_type
     /\ health_analysis["loop_delay_ms"] =
           LoopOf(health_analysis["alert_level"] = "critical").loop_delay_ms

\* The publishes of the current cycle to the topic TOPICS[key].
PublishesTo(key) ==
  IF key \in DOMAIN TOPICS
  THEN { i \in 1..Len(attempts) : /\ attempts[i].fn = "publish_to_aws_iot"
                                  /\ attempts[i].topic = TOPICS[key] }
  ELSE {}

\* Those of them that carry the record.
PublishesOf(key, record) ==
  { i \in PublishesTo(key) : attempts[i].payload = record }

\* The shadow updates of the current cycle.
ShadowUpdates ==
  { i \in 1..Len(attempts) : attempts[i].fn = "send_device_shadow_update" }

\* The keys of the five topics.
FiveTopics == DOMAIN DefaultTopics

\* A publish statement of the loop body: once it has run the cycle holds one
\* publish to its topic, of its record; before it has run, none.
StagePublished(step, key, record) ==
  IF Done(step)
  THEN /\ Cardinality(PublishesTo(key)) = 1
       /\ PublishesOf(key, record) = PublishesTo(key)
  ELSE PublishesTo(key) = {}

\* C12 as the specification states it, on the cycles that run to their sleep:
\* one publish each of the edge, fog and cloud record to its topic; the single
\* actuator response goes to the emergency topic exactly when its action is
\* EMERGENCY_ALERT and to the notifications topic exactly when it is
\* HEALTH_NOTIFICATION, so every response is published to one of the five
\* topics; one shadow update follows.
C12_EveryResponsePublished ==
  pc = "sleep" =>
     /\ Cardinality(PublishesOf("biometric_data", biometric_data)) = 1
     /\ Cardinality(PublishesOf("health_analysis", health_analysis)) = 1
     /\ Cardinality(PublishesOf("cloud_analysis", cloud_result)) = 1
     /\ Len(actuator_responses) = 1
     /\ \A n \in 1..Len(actuator_responses) :
           LET response == actuator_responses[n]
           IN  /\ PublishesOf("emergency_alerts", response) # {}
                     <=> response["action"] = "EMERGENCY_ALERT"
               /\ PublishesOf("health_notifications", response) # {}
                     <=> response["action"] = "HEALTH_NOTIFICATION"
               /\ \E key \in FiveTopics : PublishesOf(key, response) # {}
     /\ Cardinality(ShadowUpdates) = 1
     /\ attempts[Len(attempts)].fn = "send_device_shadow_update"

\* C12 (amended): in every cycle each of the three publish statements, once
\* run, has made exactly one publish, of the edge record to the biometric
\* topic, of the fog record to the health-analysis topic and of the cloud
\* record to the cloud-analysis topic, and a cycle that reaches its sleep has
\* run all three; the cycle has one actuator response, published once to the
\* emergency topic exactly when its action is EMERGENCY_ALERT, once to the
\* notifications topic exactly when it is HEALTH_NOTIFICATION and to no topic
\* when it is ROUTINE_MONITORING; exactly one shadow update, of the device
\* state, follows as the last call of the cycle.
C12_TopicRouting ==
  /\ StagePublished("publish_biometric", "biometric_data", biometric_data)
  /\ StagePublished("publish_health", "health_analysis", health_analysis)
  /\ StagePublished("publish_cloud", "cloud_analysis", cloud_result)
  /\ Done("actuators") => Len(actuator_responses) = 1
  /\ IF Done("for_response")
     THEN LET response == actuator_responses[1]
              emergency == PublishesTo("emergency_alerts")
              notifications == PublishesTo("health_notifications")
          IN  /\ emergency = PublishesOf("emergency_alerts", response)
              /\ notifications = PublishesOf("health_notifications", response)
              /\ Cardinality(emergency) =
                    IF response["action"] = "EMERGENCY_ALERT" THEN 1 ELSE 0
              /\ Cardinality(notifications) =
                    IF response["action"] = "HEALTH_NOTIFICATION" THEN 1 ELSE 0
              /\ response["action"] = "ROUTINE_MONITORING" =>
                    \A i \in 1..Len(attempts) : attempts[i].payload # response
     ELSE /\ PublishesTo("emergency_alerts") = {}
          /\ PublishesTo("health_notifications") = {}
  /\ IF Done("shadow")
     THEN /\ Cardinality(ShadowUpdates) = 1
          /\ attempts[Len(attempts)] = [fn |-> "send_device_shadow_update",
                                        topic |-> THING_NAME,
                                        payload |-> device_state]
     ELSE ShadowUpdates = {}
  /\ pc = "sleep" =>
        /\ \A step \in {"publish_biometric", "publish_health", "publish_cloud",
                        "for_response", "shadow"} : Done(step)
        /\ Len(attempts) = 4 + Cardinality(PublishesTo("emergency_alerts")
                                             \cup PublishesTo("health_notifications"))

\* A cycle with a routine response has run to its sleep: three publishes and
\* the shadow update, and no publish of the response.
C12_Witness ==
  /\ pc = "sleep"
  /\ Len(actuator_responses) = 1
  /\ actuator_responses[1]["action"] = "ROUTINE_MONITORING"
  /\ Len(attempts) = 4
  /\ attempts[4].fn = "send_device_shadow_update"
  /\ \A key \in FiveTopics : PublishesOf(key, actuator_responses[1]) = {}

\* A cycle with an emergency response has run to its sleep: the response is
\* the fourth call of the cycle, to the emergency topic.
C12_WitnessEmergency ==
  /\ pc = "sleep"
  /\ actuator_responses[1]["action"] = "EMERGENCY_ALERT"
  /\ Len(attempts) = 5
  /\ attempts[4] = [fn |-> "publish_to_aws_iot",
                    topic |-> TOPICS["emergency_alerts"],
                    payload |-> actuator_responses[1]]

====
